---- MODULE Spec2Model ----
(***************************************************************************)
(* Station rotation: the ProductionRotation engine of src/app.py and the   *)
(* submit flow of main that drives it.                                     *)
(*                                                                         *)
(* Python lists are sequences, dictionaries are functions whose DOMAIN is  *)
(* the set of keys present, pair labels are the strings the f-strings      *)
(* build.                                                                  *)
(***************************************************************************)
EXTENDS Integers, Sequences, FiniteSets, TLC

VARIABLES
    non_operational_stations,   \* self.non_operational_stations: line -> sorted list
    fixed_stations,             \* self.fixed_stations: line -> sorted list
    ret,                        \* the last engine call: its name, arguments and return value
    calls,                      \* number of setter calls made on this engine so far
    session_state,              \* st.session_state: key -> value
    now,                        \* the day the clock shows, counted from the first day
    pc,                         \* where the current run of main stands ("idle": between runs)
    valid,                      \* what validate_line_c_configuration returned in this run
    page                        \* what this run of main has rendered

engine == <<non_operational_stations, fixed_stations, ret, calls>>

app == <<session_state, now, pc, valid, page>>

vars == <<non_operational_stations, fixed_stations, ret, calls,
          session_state, now, pc, valid, page>>

----------------------------------------------------------------------------
(* Bounds of the model *)

\* Setter calls made on one engine.
MaxCalls == 2

\* Station numbers the callers pass: 3 and 7 inside the universe, 21 just
\* outside it.
Pool == {3, 7, 21}

\* Days the clock runs through.
MaxDay == 2

\* The lines the setters are called on: the special line and one other line
\* (the engine treats every line other than 'C' alike).
ConfigurableLines == {"B", "C"}

----------------------------------------------------------------------------
(* Configuration constants *)

LINES == <<"B", "C", "L", "M", "N", "O">>

STATIONS == [i \in 1..20 |-> i]

----------------------------------------------------------------------------
(* Python primitives *)

\* x in list
In(x, list) == \E i \in DOMAIN list : list[i] = x

\* set(list)
SetOf(list) == {list[i] : i \in DOMAIN list}

\* list(set): the elements in some order (Python fixes none)
RECURSIVE ListOf(_)
ListOf(S) ==
    IF S = {} THEN <<>>
    ELSE LET x == CHOOSE y \in S : TRUE IN <<x>> \o ListOf(S \ {x})

\* sorted(list): ascending, duplicates kept
sorted(list) == SortSeq(list, LAMBDA a, b : a < b)

\* dict.get(key, default)
Get(dict, key, default) == IF key \in DOMAIN dict THEN dict[key] ELSE default

\* dict[key] = value
Put(dict, key, value) ==
    [k \in DOMAIN dict \cup {key} |-> IF k = key THEN value ELSE dict[k]]

Digits == <<"0", "1", "2", "3", "4", "5", "6", "7", "8", "9">>

\* str(n) of an integer, as an f-string field renders it
RECURSIVE Str(_)
Str(n) ==
    IF n < 0 THEN "-" \o Str(0 - n)
    ELSE IF n < 10 THEN Digits[n + 1]
    ELSE Str(n \div 10) \o Digits[(n % 10) + 1]

\* f"{a}-{b}"
Label(a, b) == Str(a) \o "-" \o Str(b)

----------------------------------------------------------------------------
(* class ProductionRotation; self is the record of the two dictionaries *)

Self ==
    [non_operational_stations |-> non_operational_stations,
     fixed_stations |-> fixed_stations]

\* __init__
NewEngine == [non_operational_stations |-> <<>>, fixed_stations |-> <<>>]

\* set_non_operational assigning a new dictionary that holds this line only
set_non_operational_new_dict(self, line, stations) ==
    [self EXCEPT !.non_operational_stations =
        [l \in {line} |-> sorted(ListOf(SetOf(stations)))]]

\* set_non_operational adding to what the line already holds
set_non_operational_accumulating(self, line, stations) ==
    [self EXCEPT !.non_operational_stations =
        Put(self.non_operational_stations, line,
            sorted(ListOf(SetOf(Get(self.non_operational_stations, line, <<>>))
                          \cup SetOf(stations))))]

set_non_operational(self, line, stations) ==
    [self EXCEPT !.non_operational_stations =
        Put(self.non_operational_stations, line, sorted(ListOf(SetOf(stations))))]

\* set_fixed without set(): repeats kept
set_fixed_keeping_repeats(self, line, stations) ==
    [self EXCEPT !.fixed_stations = Put(self.fixed_stations, line, sorted(stations))]

\* The members of a list in the order of their first occurrence
Distinct(list) ==
    LET first == {i \in DOMAIN list : \A j \in 1..(i - 1) : list[j] # list[i]}
    IN  [k \in 1..Cardinality(first) |->
            list[CHOOSE i \in first : Cardinality({j \in first : j < i}) = k - 1]]

\* set_fixed without sorted(): the collection's own order, repeats dropped
set_fixed_unsorted(self, line, stations) ==
    [self EXCEPT !.fixed_stations = Put(self.fixed_stations, line, Distinct(stations))]

set_fixed(self, line, stations) ==
    [self EXCEPT !.fixed_stations =
        Put(self.fixed_stations, line, sorted(ListOf(SetOf(stations))))]

\* get_operational_stations reading the fixed stations of the line
get_operational_stations_wrong_dict(self, line) ==
    LET non_op_for_line == Get(self.fixed_stations, line, <<>>)
    IN  sorted(SelectSeq(STATIONS, LAMBDA s : ~In(s, non_op_for_line)))

get_operational_stations(self, line) ==
    LET non_op_for_line == Get(self.non_operational_stations, line, <<>>)
    IN  sorted(SelectSeq(STATIONS, LAMBDA s : ~In(s, non_op_for_line)))

\* mirror_pair without the self-pair of the middle element
mirror_pair_no_middle(stations_to_pair) ==
    LET sorted_stations == sorted(ListOf(SetOf(stations_to_pair)))
        n == Len(sorted_stations)
    IN  [i \in 1..(n \div 2) |->
            Label(sorted_stations[i], sorted_stations[n + 1 - i])]

\* mirror_pair pairing each element with the one at the same index from the
\* end, one place off: S[i] with S[n-i]
mirror_pair_off_by_one(stations_to_pair) ==
    LET sorted_stations == sorted(ListOf(SetOf(stations_to_pair)))
        n == Len(sorted_stations)
        mirrored == [i \in 1..(n \div 2) |->
                        Label(sorted_stations[i],
                              sorted_stations[IF i = 1 THEN n ELSE n + 2 - i])]
        middle_index == (n \div 2) + 1
    IN  IF n % 2 # 0
        THEN Append(mirrored,
                    Label(sorted_stations[middle_index], sorted_stations[middle_index]))
        ELSE mirrored

\* mirror_pair over the collection as given: no set(), no sorted()
mirror_pair_as_given(stations_to_pair) ==
    LET sorted_stations == stations_to_pair
        n == Len(sorted_stations)
        mirrored == [i \in 1..(n \div 2) |->
                        Label(sorted_stations[i], sorted_stations[n + 1 - i])]
        middle_index == (n \div 2) + 1
    IN  IF n % 2 # 0
        THEN Append(mirrored,
                    Label(sorted_stations[middle_index], sorted_stations[middle_index]))
        ELSE mirrored

mirror_pair(stations_to_pair) ==
    LET sorted_stations == sorted(ListOf(SetOf(stations_to_pair)))
        n == Len(sorted_stations)
        mirrored == [i \in 1..(n \div 2) |->
                        Label(sorted_stations[i], sorted_stations[n + 1 - i])]
        middle_index == (n \div 2) + 1
    IN  IF n % 2 # 0
        THEN Append(mirrored,
                    Label(sorted_stations[middle_index], sorted_stations[middle_index]))
        ELSE mirrored

\* generate_pairs leaving the fixed stations in the mirror-paired remainder
generate_pairs_fixed_in_remainder(self, line) ==
    IF line = "C"
    THEN LET fixed_c_stations_input == Get(self.fixed_stations, "C", <<>>)
             valid_fixed_stations_for_pairing ==
                 SelectSeq(fixed_c_stations_input, LAMBDA s : In(s, STATIONS))
             pairs == [i \in 1..Len(valid_fixed_stations_for_pairing) |->
                          Label(valid_fixed_stations_for_pairing[i],
                                valid_fixed_stations_for_pairing[i])]
             non_op_for_c == Get(self.non_operational_stations, "C", <<>>)
             remaining_for_mirror_pairing_c ==
                 SelectSeq(STATIONS, LAMBDA s : ~In(s, non_op_for_c))
         IN  IF remaining_for_mirror_pairing_c = <<>>
                /\ valid_fixed_stations_for_pairing = <<>>
             THEN <<>>
             ELSE IF remaining_for_mirror_pairing_c # <<>>
             THEN pairs \o mirror_pair(remaining_for_mirror_pairing_c)
             ELSE pairs
    ELSE LET operational_stations == get_operational_stations(self, line)
         IN  IF operational_stations = <<>>
             THEN <<>>
             ELSE mirror_pair(operational_stations)

\* generate_pairs taking the fixed stations as stored, in range or not
generate_pairs_fixed_unfiltered(self, line) ==
    IF line = "C"
    THEN LET valid_fixed_stations_for_pairing == Get(self.fixed_stations, "C", <<>>)
             pairs == [i \in 1..Len(valid_fixed_stations_for_pairing) |->
                          Label(valid_fixed_stations_for_pairing[i],
                                valid_fixed_stations_for_pairing[i])]
             non_op_for_c == Get(self.non_operational_stations, "C", <<>>)
             remaining_for_mirror_pairing_c ==
                 SelectSeq(STATIONS,
                           LAMBDA s : /\ ~In(s, valid_fixed_stations_for_pairing)
                                      /\ ~In(s, non_op_for_c))
         IN  IF remaining_for_mirror_pairing_c = <<>>
                /\ valid_fixed_stations_for_pairing = <<>>
             THEN <<>>
             ELSE IF remaining_for_mirror_pairing_c # <<>>
             THEN pairs \o mirror_pair(remaining_for_mirror_pairing_c)
             ELSE pairs
    ELSE LET operational_stations == get_operational_stations(self, line)
         IN  IF operational_stations = <<>>
             THEN <<>>
             ELSE mirror_pair(operational_stations)

\* generate_pairs on 'C' mirror-pairing every station that is not fixed, the
\* unavailable ones included
generate_pairs_unavailable_in_remainder(self, line) ==
    IF line = "C"
    THEN LET fixed_c_stations_input == Get(self.fixed_stations, "C", <<>>)
             valid_fixed_stations_for_pairing ==
                 SelectSeq(fixed_c_stations_input, LAMBDA s : In(s, STATIONS))
             pairs == [i \in 1..Len(valid_fixed_stations_for_pairing) |->
                          Label(valid_fixed_stations_for_pairing[i],
                                valid_fixed_stations_for_pairing[i])]
             remaining_for_mirror_pairing_c ==
                 SelectSeq(STATIONS,
                           LAMBDA s : ~In(s, valid_fixed_stations_for_pairing))
         IN  IF remaining_for_mirror_pairing_c = <<>>
                /\ valid_fixed_stations_for_pairing = <<>>
             THEN <<>>
             ELSE IF remaining_for_mirror_pairing_c # <<>>
             THEN pairs \o mirror_pair(remaining_for_mirror_pairing_c)
             ELSE pairs
    ELSE LET operational_stations == get_operational_stations(self, line)
         IN  IF operational_stations = <<>>
             THEN <<>>
             ELSE mirror_pair(operational_stations)

\* generate_pairs taking the fixed stations of whichever line it is asked for
generate_pairs_fixed_on_every_line(self, line) ==
    LET fixed_c_stations_input == Get(self.fixed_stations, line, <<>>)
        valid_fixed_stations_for_pairing ==
            SelectSeq(fixed_c_stations_input, LAMBDA s : In(s, STATIONS))
        pairs == [i \in 1..Len(valid_fixed_stations_for_pairing) |->
                     Label(valid_fixed_stations_for_pairing[i],
                           valid_fixed_stations_for_pairing[i])]
        non_op_for_c == Get(self.non_operational_stations, line, <<>>)
        remaining_for_mirror_pairing_c ==
            SelectSeq(STATIONS,
                      LAMBDA s : /\ ~In(s, valid_fixed_stations_for_pairing)
                                 /\ ~In(s, non_op_for_c))
    IN  IF remaining_for_mirror_pairing_c = <<>>
           /\ valid_fixed_stations_for_pairing = <<>>
        THEN <<>>
        ELSE IF remaining_for_mirror_pairing_c # <<>>
        THEN pairs \o mirror_pair(remaining_for_mirror_pairing_c)
        ELSE pairs

generate_pairs(self, line) ==
    IF line = "C"
    THEN LET fixed_c_stations_input == Get(self.fixed_stations, "C", <<>>)
             valid_fixed_stations_for_pairing ==
                 SelectSeq(fixed_c_stations_input, LAMBDA s : In(s, STATIONS))
             pairs == [i \in 1..Len(valid_fixed_stations_for_pairing) |->
                          Label(valid_fixed_stations_for_pairing[i],
                                valid_fixed_stations_for_pairing[i])]
             non_op_for_c == Get(self.non_operational_stations, "C", <<>>)
             remaining_for_mirror_pairing_c ==
                 SelectSeq(STATIONS,
                           LAMBDA s : /\ ~In(s, valid_fixed_stations_for_pairing)
                                      /\ ~In(s, non_op_for_c))
         IN  IF remaining_for_mirror_pairing_c = <<>>
                /\ valid_fixed_stations_for_pairing = <<>>
             THEN <<>>
             ELSE IF remaining_for_mirror_pairing_c # <<>>
             THEN pairs \o mirror_pair(remaining_for_mirror_pairing_c)
             ELSE pairs
    ELSE LET operational_stations == get_operational_stations(self, line)
         IN  IF operational_stations = <<>>
             THEN <<>>
             ELSE mirror_pair(operational_stations)

\* The calendar day the clock shows on day n: 12/31/2025, 01/01/2026, ...
Today(n) ==
    IF n = 1 THEN [year |-> 2025, month |-> 12, day |-> 31]
    ELSE [year |-> 2026, month |-> 1, day |-> n - 1]

\* %m and %d: two digits
Pad2(n) == IF n < 10 THEN "0" \o Str(n) ELSE Str(n)

\* strftime("%m/%d/%Y")
strftime_mdY(d) == Pad2(d.month) \o "/" \o Pad2(d.day) \o "/" \o Str(d.year)

\* strftime("%Y-%m-%d")
strftime_Ymd(d) == Str(d.year) \o "-" \o Pad2(d.month) \o "-" \o Pad2(d.day)

\* schedule_data with an entry only for the lines that were given unavailable
\* stations
schedule_data_configured_lines(self) ==
    [line_code \in DOMAIN self.non_operational_stations |->
        generate_pairs(self, line_code)]

\* schedule_data of generate_schedule: one entry per line of self.lines
schedule_data(self) ==
    [line_code \in SetOf(LINES) |-> generate_pairs(self, line_code)]

\* generate_schedule at clock day n: (date_str, schedule_data)
generate_schedule(self, n) ==
    [op |-> "generate_schedule",
     date |-> strftime_mdY(Today(n)),
     val |-> schedule_data(self)]

----------------------------------------------------------------------------
(* Inputs of the calls *)

\* STATIONS without the members of S
Without(S) == SelectSeq(STATIONS, LAMBDA s : s \notin S)

Reverse(list) == [i \in 1..Len(list) |-> list[Len(list) + 1 - i]]

\* The collections passed to the setters: every list of at
\* most two pool numbers (either order, repeats included), and the long lists
\* that leave at most two stations of the universe out.
ShortLists ==
    {<<>>} \cup {<<a>> : a \in Pool} \cup {<<a, b>> : a \in Pool, b \in Pool}

LongLists ==
    {Without(SetOf(s)) : s \in ShortLists} \cup {Reverse(STATIONS)}

Inputs == ShortLists \cup LongLists

\* mirror_pair is also given the lists of three pool numbers
MirrorInputs == Inputs \cup {<<a, b, c>> : a \in Pool, b \in Pool, c \in Pool}

----------------------------------------------------------------------------
(* The engine as a state machine *)

NoCall == [op |-> "none"]

Init ==
    /\ non_operational_stations = NewEngine.non_operational_stations
    /\ fixed_stations = NewEngine.fixed_stations
    /\ ret = NoCall
    /\ calls = 0
    /\ session_state = <<>>
    /\ now = 1
    /\ pc = "idle"
    /\ valid = "unchecked"
    /\ page = {}

SetNonOperational(line, stations) ==
    /\ calls < MaxCalls
    /\ LET self == set_non_operational(Self, line, stations)
       IN  /\ non_operational_stations' = self.non_operational_stations
           /\ fixed_stations' = self.fixed_stations
    /\ ret' = [op |-> "set_non_operational", line |-> line, arg |-> stations]
    /\ calls' = calls + 1
    /\ UNCHANGED app

SetFixed(line, stations) ==
    /\ calls < MaxCalls
    /\ LET self == set_fixed(Self, line, stations)
       IN  /\ non_operational_stations' = self.non_operational_stations
           /\ fixed_stations' = self.fixed_stations
    /\ ret' = [op |-> "set_fixed", line |-> line, arg |-> stations]
    /\ calls' = calls + 1
    /\ UNCHANGED app

GeneratePairs(line) ==
    /\ ret' = [op |-> "generate_pairs", line |-> line, val |-> generate_pairs(Self, line)]
    /\ UNCHANGED <<non_operational_stations, fixed_stations, calls>>
    /\ UNCHANGED app

GetOperationalStations(line) ==
    /\ ret' = [op |-> "get_operational_stations", line |-> line,
               val |-> get_operational_stations(Self, line)]
    /\ UNCHANGED <<non_operational_stations, fixed_stations, calls>>
    /\ UNCHANGED app

\* mirror_pair reads no field of self: the model calls it directly on the
\* engine as constructed, and through generate_pairs everywhere else.
MirrorPair(stations) ==
    /\ calls = 0
    /\ ret' = [op |-> "mirror_pair", arg |-> stations, val |-> mirror_pair(stations)]
    /\ UNCHANGED <<non_operational_stations, fixed_stations, calls>>
    /\ UNCHANGED app

GenerateSchedule ==
    /\ ret' = generate_schedule(Self, now)
    /\ UNCHANGED <<non_operational_stations, fixed_stations, calls>>
    /\ UNCHANGED app

Next ==
    \/ \E line \in ConfigurableLines, stations \in Inputs :
           SetNonOperational(line, stations)
    \/ \E line \in ConfigurableLines, stations \in Inputs :
           SetFixed(line, stations)
    \/ \E line \in ConfigurableLines : GetOperationalStations(line)
    \/ \E line \in SetOf(LINES) : GeneratePairs(line)
    \/ \E stations \in MirrorInputs : MirrorPair(stations)
    \/ GenerateSchedule

Spec == Init /\ [][Next]_vars

----------------------------------------------------------------------------
(* Session state and the submit flow of main *)

\* f"non_op_{line_code}"
WidgetKey(line_code) == "non_op_" \o line_code

WidgetKeys == {WidgetKey(LINES[i]) : i \in DOMAIN LINES}

\* {line: [] for line in LINES}
NoneDown == [line \in SetOf(LINES) |-> <<>>]

\* if key not in st.session_state: st.session_state[key] = value
Default(dict, key, value) == IF key \in DOMAIN dict THEN dict ELSE Put(dict, key, value)

\* for line_code in LINES: st.session_state[f"non_op_{line_code}"] = []
ClearWidgets(dict) ==
    [k \in DOMAIN dict \cup WidgetKeys |-> IF k \in WidgetKeys THEN <<>> ELSE dict[k]]

\* for line_code in LINES: if the widget key is missing, set it to []
DefaultWidgets(dict) ==
    [k \in DOMAIN dict \cup WidgetKeys |-> IF k \in DOMAIN dict THEN dict[k] ELSE <<>>]

\* initialize_session_state whose daily reset leaves the widget keys as they are
initialize_session_state_keeping_widgets(state, n) ==
    LET current_date_str == strftime_Ymd(Today(n))
        daily ==
            IF "last_date" \notin DOMAIN state \/ state["last_date"] # current_date_str
            THEN Put(Put(Put(state, "last_date", current_date_str),
                         "non_operational", NoneDown),
                     "accommodation_c", <<>>)
            ELSE state
    IN  DefaultWidgets(
            Default(Default(Default(daily, "non_operational", NoneDown),
                            "accommodation_c", <<>>),
                    "accommodation_stations_c", <<>>))

initialize_session_state(state, n) ==
    LET current_date_str == strftime_Ymd(Today(n))
        daily ==
            IF "last_date" \notin DOMAIN state \/ state["last_date"] # current_date_str
            THEN Put(ClearWidgets(
                     Put(Put(Put(state, "last_date", current_date_str),
                             "non_operational", NoneDown),
                         "accommodation_c", <<>>)),
                     "accommodation_stations_c", <<>>)
            ELSE state
    IN  DefaultWidgets(
            Default(Default(Default(daily, "non_operational", NoneDown),
                            "accommodation_c", <<>>),
                    "accommodation_stations_c", <<>>))

update_session_state_after_submit(state) ==
    LET non_operational ==
            [line \in DOMAIN state["non_operational"] \cup SetOf(LINES) |->
                IF line \in SetOf(LINES)
                THEN Get(state, WidgetKey(line), <<>>)
                ELSE state["non_operational"][line]]
    IN  Put(Put(state, "non_operational", non_operational),
            "accommodation_c", Get(state, "accommodation_stations_c", <<>>))

\* validate_line_c_configuration reading the unavailable stations of line B
validate_line_c_configuration_wrong_line(state) ==
    LET final_accommodated_c_stations == SetOf(state["accommodation_c"])
        final_unavailable_c_stations == SetOf(Get(state["non_operational"], "B", <<>>))
    IN  final_accommodated_c_stations \cap final_unavailable_c_stations = {}

validate_line_c_configuration(state) ==
    LET final_accommodated_c_stations == SetOf(state["accommodation_c"])
        final_unavailable_c_stations == SetOf(Get(state["non_operational"], "C", <<>>))
        common_stations_error_check ==
            final_accommodated_c_stations \cap final_unavailable_c_stations
    IN  common_stations_error_check = {}

\* main: for line_code in LINES: set_non_operational(...), the first k lines
RECURSIVE SetLines(_, _, _)
SetLines(self, state, k) ==
    IF k = 0 THEN self
    ELSE set_non_operational(SetLines(self, state, k - 1), LINES[k],
                             Get(state["non_operational"], LINES[k], <<>>))

\* main: the engine after the setter calls of the submit branch
Configured(self, state) ==
    set_fixed(SetLines(self, state, Len(LINES)), "C", state["accommodation_c"])

\* any(d.values())
any(dict) == \E k \in DOMAIN dict : dict[k] # <<>>

\* render_download_section looking for unavailable stations among the fixed
\* stations of the engine
render_download_section_wrong_dict(self, schedule) ==
    LET has_any_pairs == any(schedule)
        has_any_down_stations == any(self.fixed_stations)
    IN  IF ~has_any_pairs /\ ~has_any_down_stations
        THEN {"error_nothing_to_show"}
        ELSE IF ~has_any_pairs /\ has_any_down_stations
        THEN {"info_only_unavailable", "download_button", "success"}
        ELSE {"download_button", "success"}

\* What render_download_section puts on the page
render_download_section(self, schedule) ==
    LET has_any_pairs == any(schedule)
        has_any_down_stations == any(self.non_operational_stations)
    IN  IF ~has_any_pairs /\ ~has_any_down_stations
        THEN {"error_nothing_to_show"}
        ELSE IF ~has_any_pairs /\ has_any_down_stations
        THEN {"info_only_unavailable", "download_button", "success"}
        ELSE {"download_button", "success"}

\* What the user can select in a multiselect of the form
FormChoices == {<<>>, <<3>>, <<7, 3>>, STATIONS}

\* The 'Unavailable' selections of one submit: any choice for each of the
\* configurable lines, and for the other lines nothing or every station, the
\* same on all of them
FormInputs ==
    {[line \in SetOf(LINES) |-> IF line \in ConfigurableLines THEN f[line] ELSE r] :
        f \in [ConfigurableLines -> FormChoices], r \in {<<>>, STATIONS}}

\* The options of the line C 'Unavailable' multiselect as the form was last
\* rendered: the stations not selected under 'Accommodations'
OptionsUnavailableC(state) ==
    SelectSeq(STATIONS, LAMBDA s : ~In(s, Get(state, "accommodation_stations_c", <<>>)))

\* The widget values a submit posts: the selections of the form
Posted(state, acc, non_op) ==
    [k \in DOMAIN state |->
        IF k = "accommodation_stations_c" THEN acc
        ELSE IF \E line \in DOMAIN non_op : k = WidgetKey(line)
        THEN non_op[CHOOSE line \in DOMAIN non_op : k = WidgetKey(line)]
        ELSE state[k]]

\* main up to the form: initialize_session_state and a new engine
StartRun(state) ==
    /\ session_state' = initialize_session_state(state, now)
    /\ non_operational_stations' = NewEngine.non_operational_stations
    /\ fixed_stations' = NewEngine.fixed_stations
    /\ ret' = NoCall
    /\ calls' = 0
    /\ valid' = "unchecked"
    /\ page' = {"form"}
    /\ UNCHANGED now

\* A run of main without a submit
Load ==
    /\ pc = "idle"
    /\ StartRun(session_state)
    /\ pc' = "idle"

\* A run of main on a submit of the form, up to `if submitted:`
Submit(acc, non_op) ==
    /\ pc = "idle"
    /\ "accommodation_stations_c" \in DOMAIN session_state
    /\ IF OptionsUnavailableC(session_state) = <<>>
       THEN non_op["C"] = session_state[WidgetKey("C")]
       ELSE \A s \in SetOf(non_op["C"]) : In(s, OptionsUnavailableC(session_state))
    /\ StartRun(Posted(session_state, acc, non_op))
    /\ pc' = "update"

UpdateSessionState ==
    /\ pc = "update"
    /\ session_state' = update_session_state_after_submit(session_state)
    /\ pc' = "validate"
    /\ UNCHANGED <<engine, now, valid, page>>

\* if not validate_line_c_configuration(): return
Validate ==
    /\ pc = "validate"
    /\ IF validate_line_c_configuration(session_state)
       THEN /\ valid' = "passed"
            /\ page' = page
            /\ pc' = "configure"
       ELSE /\ valid' = "failed"
            /\ page' = page \cup {"error_conflict"}
            /\ pc' = "idle"
    /\ UNCHANGED <<engine, session_state, now>>

Configure ==
    /\ pc = "configure"
    /\ LET self == Configured(Self, session_state)
       IN  /\ non_operational_stations' = self.non_operational_stations
           /\ fixed_stations' = self.fixed_stations
    /\ calls' = calls + Len(LINES) + 1
    /\ pc' = "generate"
    /\ UNCHANGED <<ret, session_state, now, valid, page>>

Generate ==
    /\ pc = "generate"
    /\ ret' = generate_schedule(Self, now)
    /\ pc' = "render"
    /\ UNCHANGED <<non_operational_stations, fixed_stations, calls,
                   session_state, now, valid, page>>

RenderDownload ==
    /\ pc = "render"
    /\ page' = page \cup render_download_section(Self, ret.val)
    /\ pc' = "idle"
    /\ UNCHANGED <<engine, session_state, now, valid>>

\* Midnight passes
Tick ==
    /\ now < MaxDay
    /\ now' = now + 1
    /\ UNCHANGED <<engine, session_state, pc, valid, page>>

NextMain ==
    \/ Load
    \/ \E acc \in FormChoices, non_op \in FormInputs :
           Submit(acc, non_op)
    \/ UpdateSessionState
    \/ Validate
    \/ Configure
    \/ Generate
    \/ RenderDownload
    \/ Tick

SpecMain == Init /\ [][NextMain]_vars

----------------------------------------------------------------------------
(* Vocabulary of the properties *)

Universe == 1..20

Unavailable(line) == SetOf(Get(non_operational_stations, line, <<>>))

Fixed(line) == SetOf(Get(fixed_stations, line, <<>>))

Operable(line) == Universe \ Unavailable(line)

NoOverlapC == Fixed("C") \cap Unavailable("C") = {}

\* The ascending sequence of a set of numbers, by rank
Ascending(S) ==
    [i \in 1..Cardinality(S) |->
        CHOOSE x \in S : Cardinality({y \in S : y < x}) = i - 1]

\* The numbers a label can hold: the universe and what the callers pass
Numbers == Universe \cup Pool

\* Reading a label back: the two numbers that render to it
Readings ==
    [label \in {Label(a, b) : a \in Numbers, b \in Numbers} |->
        CHOOSE p \in Numbers \X Numbers : Label(p[1], p[2]) = label]

Readable(labels) == \A i \in DOMAIN labels : labels[i] \in DOMAIN Readings

\* The pairs of numbers of a list of labels
Read(labels) == [i \in DOMAIN labels |-> Readings[labels[i]]]

\* The positions of the pairs that name station s
Occurrences(pairs, s) == {i \in DOMAIN pairs : s = pairs[i][1] \/ s = pairs[i][2]}

SelfPairs(pairs) == {i \in DOMAIN pairs : pairs[i][1] = pairs[i][2]}

Returned(op) == ret.op = op

----------------------------------------------------------------------------
(* Properties *)

\* C1 (partition): when line C has no station both fixed and unavailable,
\* every station of 1..20 that is not unavailable on a line appears in exactly
\* one label of generate_pairs(line), and every station a label names is such
\* a station.
C1_Partition ==
    (Returned("generate_pairs") /\ NoOverlapC) =>
        /\ Readable(ret.val)
        /\ LET pairs == Read(ret.val)
           IN  /\ \A s \in Operable(ret.line) :
                      Cardinality(Occurrences(pairs, s)) = 1
               /\ \A i \in DOMAIN pairs :
                      {pairs[i][1], pairs[i][2]} \subseteq Operable(ret.line)

C1_Witness ==
    /\ Returned("generate_pairs")
    /\ ret.line = "C"
    /\ NoOverlapC
    /\ Fixed("C") \cap Universe # {}
    /\ Unavailable("C") \cap Universe # {}
    /\ Len(ret.val) > 1

\* C2 (count): on a line other than 'C' with n operable stations,
\* generate_pairs returns ceil(n/2) labels, of which one is a self-pair when n
\* is odd and none when n is even.
C2_Count ==
    (Returned("generate_pairs") /\ ret.line # "C") =>
        LET n == Cardinality(Operable(ret.line))
        IN  /\ Readable(ret.val)
            /\ Len(ret.val) = (n + 1) \div 2
            /\ Cardinality(SelfPairs(Read(ret.val))) = n % 2

C2_Witness ==
    /\ Returned("generate_pairs")
    /\ ret.line = "B"
    /\ Cardinality(Operable("B")) = 19
    /\ Len(ret.val) = 10

\* C3 (mirror structure): with S the ascending sequence of the distinct
\* numbers given and n its length, mirror_pair returns "S[i]-S[n-1-i]" for
\* i = 0..(n div 2)-1 in that order, then "S[n div 2]-S[n div 2]" exactly when
\* n is odd; for the full universe that is 1-20, 2-19, ..., 10-11.
C3_MirrorStructure ==
    Returned("mirror_pair") =>
        LET S == Ascending(SetOf(ret.arg))
            n == Len(S)
            half == n \div 2
        IN  /\ Len(ret.val) = half + (n % 2)
            /\ \A i \in 1..half : ret.val[i] = Label(S[i], S[n + 1 - i])
            /\ n % 2 = 1 => ret.val[half + 1] = Label(S[half + 1], S[half + 1])
            /\ SetOf(ret.arg) = Universe =>
                   ret.val = <<"1-20", "2-19", "3-18", "4-17", "5-16",
                               "6-15", "7-14", "8-13", "9-12", "10-11">>

C3_Witness ==
    /\ Returned("mirror_pair")
    /\ ret.arg = <<21, 3>>
    /\ ret.val = <<"3-21">>

\* C4 (order independence): mirror_pair returns the same list for any two
\* collections holding the same set of numbers, and generate_pairs of a line
\* is the same whichever ordering or duplication of a collection was passed
\* to set_non_operational or set_fixed for it.
C4_OrderIndependence ==
    /\ Returned("mirror_pair") =>
           \A other \in MirrorInputs :
               SetOf(other) = SetOf(ret.arg) => mirror_pair(other) = ret.val
    /\ Returned("set_non_operational") =>
           \A other \in Inputs :
               SetOf(other) = SetOf(ret.arg) =>
                   generate_pairs(set_non_operational(Self, ret.line, other), ret.line)
                       = generate_pairs(Self, ret.line)
    /\ Returned("set_fixed") =>
           \A other \in Inputs :
               SetOf(other) = SetOf(ret.arg) =>
                   generate_pairs(set_fixed(Self, ret.line, other), ret.line)
                       = generate_pairs(Self, ret.line)

C4_Witness ==
    /\ Returned("set_fixed")
    /\ ret.line = "C"
    /\ ret.arg = <<7, 3>>
    /\ generate_pairs(Self, "C")[1] = "3-3"

\* C5 (fixed stations): on line 'C' every fixed station s of 1..20 yields
\* exactly one label "s-s" and is named by no other label.
C5_FixedSelfPairs ==
    (Returned("generate_pairs") /\ ret.line = "C") =>
        /\ Readable(ret.val)
        /\ LET pairs == Read(ret.val)
           IN  \A s \in Fixed("C") \cap Universe :
                   /\ Cardinality({i \in DOMAIN ret.val : ret.val[i] = Label(s, s)}) = 1
                   /\ Cardinality(Occurrences(pairs, s)) = 1

C5_Witness ==
    /\ Returned("generate_pairs")
    /\ ret.line = "C"
    /\ Fixed("C") = {3, 7}
    /\ Len(ret.val) = 11

\* C6 (output order): generate_pairs returns the self-pairs of the fixed
\* stations first, in strictly ascending station order, then the mirror pairs
\* in strictly ascending order of their lower member; lines other than 'C'
\* have no fixed part. On 'C' with fixed = {3,7} and nothing unavailable the
\* list starts "3-3", "7-7" and goes on with the mirror pairs of the other 18.
C6_OutputOrder ==
    Returned("generate_pairs") =>
        LET F == IF ret.line = "C" THEN Ascending(Fixed("C") \cap Universe) ELSE <<>>
            k == Len(F)
            pairs == Read(ret.val)
        IN  /\ Readable(ret.val)
            /\ Len(ret.val) >= k
            /\ \A i \in 1..k : ret.val[i] = Label(F[i], F[i])
            /\ \A i \in (k + 1)..Len(ret.val) :
                   /\ pairs[i][1] <= pairs[i][2]
                   /\ pairs[i][1] \notin SetOf(F)
                   /\ i > k + 1 => pairs[i - 1][1] < pairs[i][1]
            /\ (ret.line = "C" /\ Fixed("C") = {3, 7} /\ Unavailable("C") = {}) =>
                   /\ SubSeq(ret.val, 1, 3) = <<"3-3", "7-7", "1-20">>
                   /\ Len(ret.val) = 11

C6_Witness ==
    /\ Returned("generate_pairs")
    /\ ret.line = "C"
    /\ Fixed("C") = {3, 7}
    /\ Unavailable("C") = {}
    /\ "C" \in DOMAIN non_operational_stations

\* C7 (replacement): after a setter call the stored set of that line is the
\* deduplicated set of this call, whatever was stored before, and a station
\* of 1..20 the call leaves out of the unavailable set is named by
\* generate_pairs of that line.
C7_Replacement ==
    /\ Returned("set_non_operational") =>
           /\ Unavailable(ret.line) = SetOf(ret.arg)
           /\ Len(non_operational_stations[ret.line]) = Cardinality(SetOf(ret.arg))
           /\ LET labels == generate_pairs(Self, ret.line)
              IN  /\ Readable(labels)
                  /\ \A s \in Universe \ SetOf(ret.arg) :
                         Occurrences(Read(labels), s) # {}
    /\ Returned("set_fixed") =>
           /\ Fixed(ret.line) = SetOf(ret.arg)
           /\ Len(fixed_stations[ret.line]) = Cardinality(SetOf(ret.arg))

C7_Witness ==
    /\ Returned("set_non_operational")
    /\ calls = 2
    /\ ret.line = "B"
    /\ ret.arg = <<7>>
    /\ DOMAIN non_operational_stations = {"B"}
    /\ DOMAIN fixed_stations = {}
    /\ generate_pairs(Self, "B")[3] = "3-18"

\* C8 (conflict blocks generation): in a submit run of main the engine is
\* configured and generate_schedule is called only after validation of line C
\* returned True; when the submitted accommodation set and line C's
\* unavailable set share a station, validation returns False, the engine is
\* left as constructed, generate_schedule is not called and no download is
\* rendered in that run.
ConflictC ==
    /\ "accommodation_c" \in DOMAIN session_state
    /\ SetOf(session_state["accommodation_c"])
           \cap SetOf(session_state["non_operational"]["C"]) # {}

C8_ConflictBlocksGeneration ==
    /\ (pc \in {"configure", "generate", "render"}
           \/ Self # NewEngine \/ ret # NoCall \/ "download_button" \in page)
           => (valid = "passed" /\ ~ConflictC)
    /\ (valid # "unchecked" /\ ConflictC) =>
           /\ valid = "failed"
           /\ pc = "idle"
           /\ Self = NewEngine
           /\ ret = NoCall
           /\ page = {"form", "error_conflict"}

C8_Witness ==
    /\ valid = "failed"
    /\ session_state["accommodation_c"] = <<3>>
    /\ session_state["non_operational"]["C"] = <<7, 3>>
    /\ "error_conflict" \in page

\* C9 (all stations down): on a line whose unavailable set holds every
\* station of 1..20 (line 'C' having no station both fixed and unavailable),
\* generate_pairs returns the empty list.
C9_AllDown ==
    (Returned("generate_pairs") /\ Universe \subseteq Unavailable(ret.line)
        /\ (ret.line = "C" => NoOverlapC)) =>
        ret.val = <<>>

C9_Witness ==
    /\ Returned("generate_pairs")
    /\ ret.line = "C"
    /\ Universe \subseteq Unavailable("C")
    /\ Fixed("C") = {21}

\* C10 (out of range): whatever numbers outside 1..20 the unavailable and
\* fixed lists hold, every number a label of generate_pairs names is in 1..20
\* and the list is the one the configuration without those numbers gives.
InRangeOnly(self) ==
    [non_operational_stations |->
        [l \in DOMAIN self.non_operational_stations |->
            SelectSeq(self.non_operational_stations[l], LAMBDA s : s \in Universe)],
     fixed_stations |->
        [l \in DOMAIN self.fixed_stations |->
            SelectSeq(self.fixed_stations[l], LAMBDA s : s \in Universe)]]

C10_OutOfRange ==
    Returned("generate_pairs") =>
        /\ Readable(ret.val)
        /\ \A i \in DOMAIN ret.val :
               {Read(ret.val)[i][1], Read(ret.val)[i][2]} \subseteq Universe
        /\ ret.val = generate_pairs(InRangeOnly(Self), ret.line)

C10_Witness ==
    /\ Returned("generate_pairs")
    /\ ret.line = "C"
    /\ 21 \in Fixed("C")
    /\ 21 \in Unavailable("C")
    /\ 3 \in Fixed("C")

\* C11 (fixed sets of other lines are inert): generate_schedule returns, for
\* every line, the pair lists of the configuration that keeps the unavailable
\* mapping and the fixed entry of 'C' and has no fixed entry for any other
\* line; so two configurations that differ only in the fixed entries of lines
\* other than 'C' get identical pair lists.
OnlyFixedC(self) ==
    [self EXCEPT !.fixed_stations =
        [l \in DOMAIN self.fixed_stations \cap {"C"} |-> self.fixed_stations[l]]]

C11_FixedInert ==
    Returned("generate_schedule") =>
        /\ ret.val = schedule_data(OnlyFixedC(Self))
        /\ \A line \in SetOf(LINES) \ {"C"} :
               ret.val[line] = generate_pairs(set_fixed(Self, line, <<7, 3>>), line)

C11_Witness ==
    /\ Returned("generate_schedule")
    /\ Fixed("B") = {3, 7}
    /\ Unavailable("B") = {3}
    /\ ret.val["B"][3] = "4-18"

\* C12 (schedule mapping): generate_schedule returns the date and a mapping
\* whose keys are exactly B, C, L, M, N, O and whose value for each line is
\* generate_pairs(line) on the current configuration; a line never given
\* unavailable stations is paired as the full universe 1-20 .. 10-11 (on 'C',
\* when no station of 1..20 is fixed); the return has no component holding
\* the unavailable stations.
FullMirror ==
    <<"1-20", "2-19", "3-18", "4-17", "5-16", "6-15", "7-14", "8-13", "9-12", "10-11">>

C12_ScheduleMapping ==
    Returned("generate_schedule") =>
        /\ DOMAIN ret = {"op", "date", "val"}
        /\ DOMAIN ret.val = {"B", "C", "L", "M", "N", "O"}
        /\ \A line \in DOMAIN ret.val :
               /\ ret.val[line] = generate_pairs(Self, line)
               /\ Readable(ret.val[line])
               /\ (line \notin DOMAIN non_operational_stations
                      /\ (line = "C" => Fixed("C") \cap Universe = {}))
                      => ret.val[line] = FullMirror

C12_Witness ==
    /\ Returned("generate_schedule")
    /\ DOMAIN non_operational_stations = {"B"}
    /\ Unavailable("B") = {3, 7}
    /\ Fixed("C") = {21}
    /\ Len(ret.val["B"]) = 9
    /\ ret.val["C"] = ret.val["O"]

\* C13 (unavailable stations never surface in pairs), as stated: whatever the
\* configuration, also with fixed stations of 'C' that are unavailable on 'C',
\* no station of a line's unavailable set is named by a label of
\* generate_pairs(line).
C13_NeverSurface ==
    Returned("generate_pairs") =>
        /\ Readable(ret.val)
        /\ \A s \in Unavailable(ret.line) : Occurrences(Read(ret.val), s) = {}

\* C13 as amended: a station of a line's unavailable set is named by a label
\* of generate_pairs(line) only on 'C' when it is a fixed station of 1..20;
\* it is then named by exactly one label, its self-pair "s-s", which stands
\* among the fixed self-pairs. Every other unavailable station, and every
\* unavailable station of another line, is named by no label.
KeptFixedC(line) ==
    IF line = "C" THEN Fixed("C") \cap Unavailable("C") \cap Universe ELSE {}

C13_SurfaceOnlyWhenFixed ==
    Returned("generate_pairs") =>
        /\ Readable(ret.val)
        /\ LET pairs == Read(ret.val)
           IN  \A s \in Unavailable(ret.line) :
                   IF s \in KeptFixedC(ret.line)
                   THEN \E i \in 1..Cardinality(Fixed("C") \cap Universe) :
                            /\ ret.val[i] = Label(s, s)
                            /\ Occurrences(pairs, s) = {i}
                   ELSE Occurrences(pairs, s) = {}

C13_Witness ==
    /\ Returned("generate_pairs")
    /\ ret.line = "C"
    /\ Fixed("C") = {3}
    /\ Unavailable("C") = {3, 7}
    /\ ret.val[1] = "3-3"
    /\ Len(ret.val) = 10

\* C14 (daily reset). The session states a run of main can begin with: the
\* stored one, as it is or with the widget values a submit posts.
RunStarts ==
    {session_state} \cup
        {Posted(session_state, acc, non_op) : acc \in FormChoices, non_op \in FormInputs}

Stale(state, n) ==
    "last_date" \notin DOMAIN state \/ state["last_date"] # strftime_Ymd(Today(n))

\* initialize_session_state on a state whose last_date is absent or another
\* day: last_date is today, non_operational maps every line to [],
\* accommodation_c is [] and every widget key is [].
ResetDone(after, n) ==
    /\ after["last_date"] = strftime_Ymd(Today(n))
    /\ after["non_operational"] = NoneDown
    /\ after["accommodation_c"] = <<>>
    /\ \A k \in WidgetKeys \cup {"accommodation_stations_c"} : after[k] = <<>>

\* initialize_session_state on a state whose last_date is today
Kept(before, after) ==
    /\ after["non_operational"] = before["non_operational"]
    /\ after["accommodation_c"] = before["accommodation_c"]

NothingConfigured(self) ==
    /\ \A l \in DOMAIN self.non_operational_stations :
           self.non_operational_stations[l] = <<>>
    /\ \A l \in DOMAIN self.fixed_stations : self.fixed_stations[l] = <<>>

ResetOrKept ==
    pc = "idle" =>
        \A before \in RunStarts :
            LET after == initialize_session_state(before, now)
            IN  IF Stale(before, now) THEN ResetDone(after, now) ELSE Kept(before, after)

\* The day a run of main began: the day its initialize_session_state left in
\* last_date
RunDays ==
    {d \in 1..MaxDay : Get(session_state, "last_date", "") = strftime_Ymd(Today(d))}

\* C14 as stated: the reset and keep conditions of initialize_session_state
\* hold, and a schedule generated from stations that were submitted bears
\* the date of the day they were submitted on, never a later one.
C14_NeverOnLaterDay ==
    /\ ResetOrKept
    /\ (Returned("generate_schedule") /\ ~NothingConfigured(Self)) =>
           \E d \in RunDays : ret.date = strftime_mdY(Today(d))

\* C14 as amended: the reset and keep conditions of initialize_session_state
\* hold; a run of main that begins on another day than last_date configures
\* the engine with nothing unavailable and nothing fixed, whatever was stored
\* or posted; and a schedule generated from stations that were submitted
\* bears the date of the day the run began or of a later day, the clock being
\* read again by generate_schedule.
C14_DailyReset ==
    /\ ResetOrKept
    /\ pc = "idle" =>
           \A before \in RunStarts :
               Stale(before, now) =>
                   NothingConfigured(
                       Configured(NewEngine,
                                  update_session_state_after_submit(
                                      initialize_session_state(before, now))))
    /\ (Returned("generate_schedule") /\ ~NothingConfigured(Self)) =>
           \E d \in RunDays :
               \E later \in d..now : ret.date = strftime_mdY(Today(later))

C14_Witness ==
    /\ pc = "idle"
    /\ now = 2
    /\ Get(session_state, "last_date", "") = "2025-12-31"
    /\ session_state["non_operational"]["B"] = <<3>>
    /\ session_state["accommodation_c"] = <<7, 3>>
    /\ session_state[WidgetKey("B")] = <<3>>

\* C15 (frame): a step that calls set_non_operational(line, _) leaves the
\* unavailable entry of every other line and the whole fixed mapping as they
\* were; a step that calls set_fixed(line, _) leaves the fixed entry of every
\* other line and the whole unavailable mapping as they were; a step that
\* calls get_operational_stations, generate_pairs, mirror_pair or
\* generate_schedule leaves both mappings as they were, and generate_schedule
\* called after any of these returns the pair lists of the configuration
\* those calls were made on.
Queries ==
    {"get_operational_stations", "generate_pairs", "mirror_pair", "generate_schedule"}

\* mapping' differs from mapping in the entry of line at most
OnlyEntry(before, after, line) ==
    /\ DOMAIN after = DOMAIN before \cup {line}
    /\ \A l \in DOMAIN before \ {line} : after[l] = before[l]

FrameStep ==
    /\ ret'.op = "set_non_operational" =>
           /\ OnlyEntry(non_operational_stations, non_operational_stations', ret'.line)
           /\ fixed_stations' = fixed_stations
    /\ ret'.op = "set_fixed" =>
           /\ OnlyEntry(fixed_stations, fixed_stations', ret'.line)
           /\ non_operational_stations' = non_operational_stations
    /\ ret'.op \in Queries =>
           /\ non_operational_stations' = non_operational_stations
           /\ fixed_stations' = fixed_stations
    /\ (ret'.op = "generate_schedule" /\ ret.op \in Queries) =>
           ret'.val = schedule_data(Self)

C15_Frame == [][FrameStep]_vars

C15_Witness ==
    /\ Returned("set_non_operational")
    /\ ret.line = "C"
    /\ ret.arg = <<21, 3>>
    /\ Unavailable("B") = {3, 7}
    /\ DOMAIN fixed_stations = {}

\* C16 (the 'nothing to show' error is unreachable from main): no run of main
\* renders the error of render_download_section; when the schedule a submit
\* run generated has an empty pair list for every line, the engine holds a
\* non-empty unavailable list for some line; and every run that generated a
\* schedule has rendered the download button when it ends.
C16_DownloadAlwaysOffered ==
    /\ "error_nothing_to_show" \notin page
    /\ (Returned("generate_schedule") /\ ~any(ret.val)) =>
           any(non_operational_stations)
    /\ (Returned("generate_schedule") /\ pc = "idle") =>
           {"download_button", "success"} \subseteq page

C16_Witness ==
    /\ Returned("generate_schedule")
    /\ pc = "idle"
    /\ ~any(ret.val)
    /\ \A line \in SetOf(LINES) : Universe \subseteq Unavailable(line)
    /\ page = {"form", "info_only_unavailable", "download_button", "success"}

====
